---- MODULE Spec2Model ----
(***************************************************************************)
(* A model of pyWsjtxHighlight.py: the application database (a text file   *)
(* of comma separated records kept in sorted order behind a sentinel       *)
(* line), the binary search for a callsign, the recency classification of  *)
(* a decoded callsign, and the session loop that consumes WSJT-X messages. *)
(*                                                                         *)
(* Python strings are sequences of one-character strings and are compared  *)
(* by code point, as Python compares them.  Database entries are the text  *)
(* lines the program formats, sorts, writes, reads back and splits.        *)
(***************************************************************************)
EXTENDS Integers, Sequences, FiniteSets, TLC

VARIABLES
    store,       \* logdata.csv: whether it exists, and its text
    db,          \* the list of lines read from the file, extended in memory
    wsjtx_band,  \* global wsjtx_band
    wsjtx_mode,  \* global wsjtx_mode
    year_now,    \* global year_now
    leap_now,    \* global leap_now
    julian_now,  \* global julian_now
    num_days,    \* global num_days
    pc,          \* where the process is: see PcValues
    Message,     \* monitor.Message, the message being handled
    sent,        \* the highlight commands sent while handling Message
    ret          \* what parse_decode returned while handling Message

vars == <<store, db, wsjtx_band, wsjtx_mode, year_now, leap_now, julian_now,
          num_days, pc, Message, sent, ret>>

-----------------------------------------------------------------------------
(* Bounds of the model.                                                    *)

\* The session stops accepting QSO-logged messages once the index holds
\* this many lines.
MaxIndex == 3

\* The longest ADIF log a build reads.
MaxAdif == 2

\* The largest value given to option -n.
MaxOptDays == 2

\* The number of records, before the sentinel, of the indexes the function
\* specification draws.
MaxFnRecords == 2

\* The largest num_days of the function specification.
MaxFnDays == 3

-----------------------------------------------------------------------------
(* Strings.                                                                *)

Digits == <<"0", "1", "2", "3", "4", "5", "6", "7", "8", "9">>

Letters == <<"A", "B", "C", "D", "E", "F", "G", "H", "I", "J", "K", "L", "M",
             "N", "O", "P", "Q", "R", "S", "T", "U", "V", "W", "X", "Y", "Z">>

Lowers == <<"a", "b", "c", "d", "e", "f", "g", "h", "i", "j", "k", "l", "m",
            "n", "o", "p", "q", "r", "s", "t", "u", "v", "w", "x", "y", "z">>

DigitSet == {Digits[i] : i \in 1..Len(Digits)}

UpperSet == {Letters[i] : i \in 1..Len(Letters)}

LowerSet == {Lowers[i] : i \in 1..Len(Lowers)}

IsDigit(c) == c \in DigitSet

IsUpper(c) == c \in UpperSet

IsLower(c) == c \in LowerSet

IsSpace(c) == c \in {" ", "\n"}

\* The value of a decimal digit.
DigitValue == [c \in DigitSet |-> (CHOOSE i \in 1..Len(Digits) : Digits[i] = c) - 1]
              @@ <<>>

\* The code point of a character.
Ord == ("\n" :> 10) @@ (" " :> 32) @@ ("," :> 44) @@ ("-" :> 45) @@ ("/" :> 47)
       @@ [c \in DigitSet |-> 48 + DigitValue[c]]
       @@ [c \in UpperSet |-> 64 + (CHOOSE i \in 1..Len(Letters) : Letters[i] = c)]
       @@ [c \in LowerSet |-> 96 + (CHOOSE i \in 1..Len(Lowers) : Lowers[i] = c)]

\* The capital of a small letter.
Capital == [c \in LowerSet |-> Letters[CHOOSE i \in 1..Len(Lowers) : Lowers[i] = c]]
           @@ <<>>

\* s.upper()
Upper(s) == [k \in 1..Len(s) |-> IF IsLower(s[k]) THEN Capital[s[k]] ELSE s[k]]

RECURSIVE LessFrom(_, _, _)
LessFrom(a, b, i) ==
    IF i > Len(b) THEN FALSE
    ELSE IF i > Len(a) THEN TRUE
    ELSE IF a[i] = b[i] THEN LessFrom(a, b, i + 1)
    ELSE Ord[a[i]] < Ord[b[i]]

\* Python's a < b on strings.
StrLess(a, b) == LessFrom(a, b, 1)

\* s[a:b], which is cut to the string's length
Slice(s, a, b) ==
    LET hi == IF b < Len(s) THEN b ELSE Len(s)
    IN  IF a >= hi THEN <<>> ELSE SubSeq(s, a + 1, hi)

StartsWith(s, p) == Len(s) >= Len(p) /\ SubSeq(s, 1, Len(p)) = p

\* The places of s, in ascending order, whose character is in the set.
Places(s, chars) == SelectSeq([i \in 1..Len(s) |-> i], LAMBDA i : s[i] \in chars)

\* s.split(sep): the pieces between the separators, empty ones included
Split(s, sep) ==
    LET cut == <<0>> \o Places(s, {sep}) \o <<Len(s) + 1>>
    IN  [k \in 1..(Len(cut) - 1) |-> SubSeq(s, cut[k] + 1, cut[k + 1] - 1)]

\* s.split(): the words between runs of whitespace
SplitWords(s) ==
    LET cut == <<0>> \o Places(s, {" ", "\n"}) \o <<Len(s) + 1>>
        pieces == [k \in 1..(Len(cut) - 1) |-> SubSeq(s, cut[k] + 1, cut[k + 1] - 1)]
    IN  SelectSeq(pieces, LAMBDA w : w # <<>>)

\* s.strip(): s without the whitespace at its ends
Strip(s) ==
    LET inked == {i \in 1..Len(s) : ~IsSpace(s[i])}
    IN  IF inked = {} THEN <<>>
        ELSE SubSeq(s, CHOOSE i \in inked : \A j \in inked : i <= j,
                       CHOOSE i \in inked : \A j \in inked : i >= j)

RECURSIVE ToInt(_)
\* int(s) of a string of decimal digits
ToInt(s) ==
    IF s = <<>> THEN 0
    ELSE 10 * ToInt(SubSeq(s, 1, Len(s) - 1))
         + DigitValue[s[Len(s)]]

IsNumber(s) == s # <<>> /\ \A i \in 1..Len(s) : IsDigit(s[i])

RECURSIVE ToStr(_)
\* '{}'.format(n) of a natural number
ToStr(n) ==
    IF n < 10 THEN <<Digits[n + 1]>>
    ELSE Append(ToStr(n \div 10), Digits[(n % 10) + 1])

RECURSIVE JoinButLast(_)
JoinButLast(lines) ==
    IF Len(lines) <= 1 THEN <<>> ELSE lines[1] \o JoinButLast(Tail(lines))

RECURSIVE Concat(_)
\* ''.join(lines)
Concat(lines) ==
    IF lines = <<>> THEN <<>> ELSE lines[1] \o Concat(Tail(lines))

\* file.readlines(): the lines of a text, each keeping its newline; a last
\* line without one is a line too
ReadLines(s) ==
    LET ends == Places(s, {"\n"})
        cut == <<0>> \o ends
               \o (IF s # <<>> /\ s[Len(s)] # "\n" THEN <<Len(s)>> ELSE <<>>)
    IN  [k \in 1..(Len(cut) - 1) |-> SubSeq(s, cut[k] + 1, cut[k + 1])]

RECURSIVE InsertUnlessHeld(_, _)
InsertUnlessHeld(x, sorted) ==
    IF sorted = <<>> THEN <<x>>
    ELSE IF sorted[1] = x THEN sorted
    ELSE IF StrLess(x, sorted[1]) THEN <<x>> \o sorted
    ELSE <<sorted[1]>> \o InsertUnlessHeld(x, Tail(sorted))

RECURSIVE Insert(_, _)
Insert(x, sorted) ==
    IF sorted = <<>> THEN <<x>>
    ELSE IF StrLess(x, sorted[1]) THEN <<x>> \o sorted
    ELSE <<sorted[1]>> \o Insert(x, Tail(sorted))

SortKeepsOrder(list) == list

RECURSIVE Sort(_)
\* list.sort() of a list of strings: ascending by code point
Sort(list) ==
    IF list = <<>> THEN <<>>
    ELSE Insert(list[Len(list)], Sort(SubSeq(list, 1, Len(list) - 1)))

-----------------------------------------------------------------------------
(* The calendar.                                                           *)

\* leap_year(year)
leap_year(year) ==
    IF year % 400 = 0 THEN 1
    ELSE IF year % 100 = 0 THEN 0
    ELSE IF year % 4 = 0 THEN 1
    ELSE 0

\* The length of a month, as datetime knows it.
DaysInMonth(year, month) ==
    IF month = 2 THEN 28 + leap_year(year)
    ELSE IF month \in {4, 6, 9, 11} THEN 30
    ELSE 31

RECURSIVE DaysBefore(_, _)
DaysBefore(year, month) ==
    IF month <= 1 THEN 0
    ELSE DaysBefore(year, month - 1) + DaysInMonth(year, month - 1)

ParseDateNoCalendar(qso_date) ==
    LET y == Slice(qso_date, 0, 4)
        m == Slice(qso_date, 4, 6)
        d == Slice(qso_date, 6, 8)
    IN  IF ~(IsNumber(y) /\ IsNumber(m) /\ IsNumber(d))
        THEN [ok |-> FALSE]
        ELSE [ok |-> TRUE, year |-> ToInt(y), leap |-> leap_year(ToInt(y)),
              julian |-> DaysBefore(ToInt(y), ToInt(m)) + ToInt(d)]

\* parse_date(qso_date): int() and datetime() raise ValueError on a stamp
\* that is no number or no calendar date.
parse_date(qso_date) ==
    LET y == Slice(qso_date, 0, 4)
        m == Slice(qso_date, 4, 6)
        d == Slice(qso_date, 6, 8)
    IN  IF ~(IsNumber(y) /\ IsNumber(m) /\ IsNumber(d))
        THEN [ok |-> FALSE]
        ELSE LET year == ToInt(y)
                 month == ToInt(m)
                 day == ToInt(d)
             IN  IF year >= 1 /\ month \in 1..12
                    /\ day \in 1..DaysInMonth(year, month)
                 THEN [ok |-> TRUE, year |-> year, leap |-> leap_year(year),
                       julian |-> DaysBefore(year, month) + day]
                 ELSE [ok |-> FALSE]

-----------------------------------------------------------------------------
(* The application database.                                               *)

\* The value of `store' when logdata.csv does not exist.
NoFile == [exists |-> FALSE, text |-> <<>>]

\* The value of `store' when logdata.csv holds a text.
File(text) == [exists |-> TRUE, text |-> text]

\* 'ZZZZZZ,NONE,NONE,2001,0,1\n', the bogus record build_database writes last.
SentinelLine ==
    <<"Z", "Z", "Z", "Z", "Z", "Z", ",", "N", "O", "N", "E", ",",
      "N", "O", "N", "E", ",", "2", "0", "0", "1", ",", "0", ",", "1", "\n">>

\* '{},{},{},{},{},{}\n'.format(call, mode, band, year, leap, julian)
FormatEntry(call, mode, band, year, leap, julian) ==
    call \o <<",">> \o mode \o <<",">> \o band \o <<",">> \o ToStr(year)
         \o <<",">> \o ToStr(leap) \o <<",">> \o ToStr(julian) \o <<"\n">>

\* The database entry build_database makes of one QSO of the ADIF log;
\* get_field gives the empty string for a field the QSO lacks.
AdifEntry(qso) ==
    LET d == parse_date(qso.QSO_DATE)
    IN  FormatEntry(Upper(qso.CALL), Upper(qso.MODE), Upper(qso.BAND),
                    d.year, d.leap, d.julian)

BuildUnsorted(adif_log) ==
    IF \E i \in 1..Len(adif_log) : ~parse_date(adif_log[i].QSO_DATE).ok
    THEN [ok |-> FALSE, file |-> <<>>]
    ELSE LET db_list == [i \in 1..Len(adif_log) |-> AdifEntry(adif_log[i])]
         IN  [ok |-> TRUE, file |-> Concat(db_list) \o SentinelLine]

\* build_database(app_database_file, wsjtx_adif_file): the file it leaves.
\* The file is opened for writing, and so emptied, before the log is read;
\* a date parse_date cannot parse ends the program there.
build_database(adif_log) ==
    IF \E i \in 1..Len(adif_log) : ~parse_date(adif_log[i].QSO_DATE).ok
    THEN [ok |-> FALSE, file |-> <<>>]
    ELSE LET db_list == [i \in 1..Len(adif_log) |-> AdifEntry(adif_log[i])]
         IN  [ok |-> TRUE, file |-> Concat(Sort(db_list)) \o SentinelLine]

\* The callsign of a line, as binary_search and call_index read it.
CallOf(line) == Split(line, ",")[1]

-----------------------------------------------------------------------------
(* Looking a callsign up.  Indexes are Python's: the first line is db[0].  *)

IsAlnum(c) == IsUpper(c) \/ IsDigit(c)

\* callsign_re.match(txt): [A-Z0-9]{1,3}[0-9][A-Z0-9]{0,3}[A-Z] at the start
callsign_re_match(txt) ==
    \E i \in 1..3 : \E j \in 0..3 :
        /\ i + j + 2 <= Len(txt)
        /\ \A k \in 1..i : IsAlnum(txt[k])
        /\ IsDigit(txt[i + 1])
        /\ \A k \in (i + 2)..(i + 1 + j) : IsAlnum(txt[k])
        /\ IsUpper(txt[i + j + 2])

RECURSIVE FirstCallsign(_)
FirstCallsign(words) ==
    IF words = <<>> THEN <<>>
    ELSE IF callsign_re_match(words[1]) THEN words[1]
    ELSE FirstCallsign(Tail(words))

\* get_callsign(msg)
get_callsign(msg) ==
    LET msg_s == SplitWords(msg)
    IN  IF msg_s = <<>> THEN <<>> ELSE FirstCallsign(Tail(msg_s))

RECURSIVE BinaryLoop(_, _, _, _)
BinaryLoop(call, list, low, high) ==
    IF low > high THEN -1
    ELSE LET mid == (high + low) \div 2
             ref == CallOf(list[mid + 1])
         IN  IF StrLess(ref, call) THEN BinaryLoop(call, list, mid + 1, high)
             ELSE IF StrLess(call, ref) THEN BinaryLoop(call, list, low, mid - 1)
             ELSE mid

\* binary_search(call, db)
binary_search(call, list) == BinaryLoop(call, list, 0, Len(list) - 1)

RECURSIVE BackUp(_, _, _)
BackUp(call, list, index) ==
    IF index > 0 /\ CallOf(list[index]) = call
    THEN BackUp(call, list, index - 1)
    ELSE index

CallIndexNoBackUp(call, list) == binary_search(call, list)

\* call_index(call, db)
call_index(call, list) == BackUp(call, list, binary_search(call, list))

-----------------------------------------------------------------------------
(* The recency classification.                                             *)

\* The test whether an entry is of the mode and the band WSJT-X is on.
ContextMatchModeOnly(db_entry) == db_entry[2] = wsjtx_mode

ContextMatch(db_entry) == db_entry[2] = wsjtx_mode /\ db_entry[3] = wsjtx_band

\* The day difference highlight_level takes for a QSO of the current year.
SameYearDelta(julian_qso) == julian_now - julian_qso

\* The day difference highlight_level takes for a QSO of the year before.
RolloverDeltaNoLeap(leap_qso, julian_qso) == (julian_now + 365) - julian_qso

RolloverDelta(leap_qso, julian_qso) == (julian_now + leap_qso + 365) - julian_qso

\* The test that a log entry was less than num_days ago.
WithinDaysInclusive(delta) == delta <= num_days

WithinDays(delta) == delta < num_days

\* One pass of highlight_level's loop body over an entry whose callsign is
\* the one looked for: the level it leaves, and whether it breaks the loop.
ScanEntry(level, db_entry) ==
    IF ContextMatch(db_entry)
    THEN LET year_qso == ToInt(db_entry[4])
             julian_qso == ToInt(db_entry[6])
         IN  IF year_now = year_qso
             THEN LET delta == SameYearDelta(julian_qso)
                  IN  IF delta = 0 THEN [level |-> 2, stop |-> TRUE]
                      ELSE IF WithinDays(delta)
                           THEN [level |-> IF level = 0 THEN 1 ELSE level,
                                 stop |-> FALSE]
                      ELSE [level |-> level, stop |-> FALSE]
             ELSE IF year_now - year_qso = 1
             THEN LET leap_qso == ToInt(db_entry[5])
                      delta == RolloverDelta(leap_qso, julian_qso)
                  IN  IF WithinDays(delta)
                      THEN [level |-> IF level = 0 THEN 1 ELSE level,
                            stop |-> FALSE]
                      ELSE [level |-> level, stop |-> FALSE]
             ELSE [level |-> level, stop |-> FALSE]
    ELSE [level |-> level, stop |-> FALSE]

\* highlight_level's loop from db[index] on.  `levels' lists the value of
\* level on entry and after each entry scanned; `error' tells that the loop
\* read db[index] with index = len(db), Python's IndexError.
RECURSIVE ScanFrom(_, _, _, _, _)
ScanFrom(call, index, list, level, levels) ==
    IF index >= Len(list)
    THEN [level |-> level, levels |-> levels, error |-> TRUE, last |-> index]
    ELSE LET db_entry == Split(Strip(list[index + 1]), ",")
         IN  IF call # db_entry[1]
             THEN [level |-> level, levels |-> levels, error |-> FALSE,
                   last |-> index]
             ELSE LET r == ScanEntry(level, db_entry)
                  IN  IF r.stop
                      THEN [level |-> r.level, levels |-> Append(levels, r.level),
                            error |-> FALSE, last |-> index]
                      ELSE ScanFrom(call, index + 1, list, r.level,
                                    Append(levels, r.level))

\* highlight_level(call, index, db)
highlight_level(call, index, list) == ScanFrom(call, index, list, 0, <<0>>)

\* 'CQ'
CQ == <<"C", "Q">>

\* parse_decode(message, db): the (call, level) it returns, with the index
\* it looked the call up at (-1: none), the levels of the scan, and whether
\* the scan ended in an IndexError instead of returning.
parse_decode(msg_str, list) ==
    LET call == get_callsign(msg_str)
    IN  IF StartsWith(msg_str, CQ) /\ Len(call) > 0
        THEN LET index == call_index(call, list)
             IN  IF index >= 0
                 THEN LET h == highlight_level(call, index, list)
                      IN  [call |-> call, level |-> h.level, error |-> h.error,
                           index |-> index, levels |-> h.levels]
                 ELSE [call |-> call, level |-> 0, error |-> FALSE,
                       index |-> index, levels |-> <<>>]
        ELSE [call |-> call, level |-> 0, error |-> FALSE, index |-> -1,
              levels |-> <<>>]

-----------------------------------------------------------------------------
(* What the program reads: command lines, ADIF logs, the clock, messages.  *)

K1A == <<"K", "1", "A">>

K1AB == <<"K", "1", "A", "B">>

W1AW == <<"W", "1", "A", "W">>

\* A DX call WSJT-X accepts (letters only) that sorts after ZZZZZZ.
ZZZZZZZ == <<"Z", "Z", "Z", "Z", "Z", "Z", "Z">>

FT8 == <<"F", "T", "8">>

FT4 == <<"F", "T", "4">>

Stamp20240101 == <<"2", "0", "2", "4", "0", "1", "0", "1">>

Stamp20240102 == <<"2", "0", "2", "4", "0", "1", "0", "2">>

\* No calendar date: 2023 is no leap year.
Stamp20230229 == <<"2", "0", "2", "3", "0", "2", "2", "9">>

\* The QSOs an ADIF log is made of; the third lacks its MODE and BAND.
AdifQsos ==
    { [CALL |-> K1A, MODE |-> FT8, BAND |-> <<"2", "0", "m">>,
       QSO_DATE |-> Stamp20240102],
      [CALL |-> ZZZZZZZ, MODE |-> FT8, BAND |-> <<"2", "0", "m">>,
       QSO_DATE |-> Stamp20240101],
      [CALL |-> K1A, MODE |-> <<>>, BAND |-> <<>>, QSO_DATE |-> Stamp20240101],
      [CALL |-> K1AB, MODE |-> FT8, BAND |-> <<"2", "0", "m">>,
       QSO_DATE |-> Stamp20230229] }

AdifLogs == UNION {[1..n -> AdifQsos] : n \in 0..MaxAdif}

\* The dates the clock shows (UTC).
Clock ==
    { [year |-> 2024, month |-> 1, day |-> 1],
      [year |-> 2024, month |-> 1, day |-> 2] }

\* int(utc_now.strftime('%j'))
JulianOf(date) == DaysBefore(date.year, date.month) + date.day

\* The values of option -n; 0 stands for a command line without it.
OptDays == 0..MaxOptDays

\* The texts of the decode messages.
DecodeTexts ==
    { <<"C", "Q", " ", "K", "1", "A", " ", "F", "N", "2", "0">>,
      <<"C", "Q", " ", "D", "X", " ", "K", "1", "A", "B", " ", "E", "M", "1", "2">>,
      <<"W", "1", "A", "W", " ", "K", "1", "A", " ", "-", "1", "0">>,
      <<"C", "Q", " ", "Z", "Z", "Z", "Z", "Z", "Z", "Z">> }

\* The dial frequencies (Hz) and modes of the status messages.
StatusFreqs == {14074000}

StatusModes == {FT8}

LoggedCalls == {K1A, ZZZZZZZ}

LoggedStamps == {Stamp20240101, Stamp20240102, Stamp20230229}

\* freq2band(freq) of package adif, for a frequency in Hz: the ADIF band
\* of the frequency, '' outside the bands.
freq2band(hz) ==
    IF hz >= 14000000 /\ hz <= 14350000 THEN <<"2", "0", "m">>
    ELSE IF hz >= 7000000 /\ hz <= 7300000 THEN <<"4", "0", "m">>
    ELSE <<>>

NoMessage == [type |-> "NONE", freq |-> 0, mode |-> <<>>, qso_date |-> <<>>,
              dx_call |-> <<>>, text |-> <<>>]

NoReturn == [call |-> <<>>, level |-> 0, error |-> FALSE, index |-> -1,
             levels |-> <<>>]

TerminalTypes == {"CLOSE", "TIMEOUT", "SOCKET_ERROR"}

\* "off": no process runs; "loop": the session loop waits for a message;
\* the others: the process has ended, normally ("exit"), by sys.exit(1)
\* ("exit1") or by an exception nothing catches.
PcValues == {"off", "loop", "exit", "exit1", "ValueError", "IndexError"}

-----------------------------------------------------------------------------
(* The program.                                                            *)

\* Nothing has run yet and logdata.csv does not exist.
Init ==
    /\ store = NoFile
    /\ db = <<>>
    /\ wsjtx_band = <<>>
    /\ wsjtx_mode = <<>>
    /\ year_now = 0
    /\ leap_now = 0
    /\ julian_now = 0
    /\ num_days = 7
    /\ pc = "off"
    /\ Message = NoMessage
    /\ sent = <<>>
    /\ ret = NoReturn

\* The globals of a process that has just been started.
FreshGlobals ==
    /\ wsjtx_band' = <<>>
    /\ wsjtx_mode' = <<>>
    /\ Message' = NoMessage
    /\ sent' = <<>>
    /\ ret' = NoReturn

NoDate ==
    /\ year_now' = 0
    /\ leap_now' = 0
    /\ julian_now' = 0

RejectedBelowOne(opt_n) == opt_n # 0 /\ opt_n < 1

\* Option -n was given with a value below 2: sys.exit(1).
Rejected(opt_n) == opt_n # 0 /\ opt_n < 2

\* Whether the start builds the database: flag is build_database_flag and
\* older tells that logdata.csv is older than the ADIF log.
NeedsBuild(flag, older) ==
    \/ ~store.exists
    \/ flag = 2
    \/ (flag = 1 /\ older)

\* The start reads nothing after a bad option, older only with -b, the ADIF log only when it builds, and
\* the clock only once the socket is bound: what it does not read is fixed.
StartReads(opt_n, flag, older, adif_log, bind_ok, clock) ==
    /\ Rejected(opt_n) => (flag = 0 /\ bind_ok)
    /\ (flag # 1 \/ ~store.exists) => ~older
    /\ (~NeedsBuild(flag, older) \/ Rejected(opt_n)) => adif_log = <<>>
    /\ ~bind_ok => clock = CHOOSE c \in Clock : TRUE

\* A run of the program from its command line to the session loop: the
\* options, the build, the load, the bind and the date.
Start(opt_n, flag, older, adif_log, bind_ok, clock) ==
    /\ pc = "off"
    /\ FreshGlobals
    /\ IF Rejected(opt_n)
       THEN /\ num_days' = opt_n
            /\ pc' = "exit1"
            /\ db' = <<>>
            /\ NoDate
            /\ UNCHANGED store
       ELSE /\ num_days' = (IF opt_n = 0 THEN 7 ELSE opt_n)
            /\ LET built == build_database(adif_log)
                   file == IF NeedsBuild(flag, older) THEN built.file
                           ELSE store.text
               IN  /\ store' = File(file)
                   /\ IF NeedsBuild(flag, older) /\ ~built.ok
                      THEN /\ pc' = "ValueError"
                           /\ db' = <<>>
                           /\ NoDate
                      ELSE /\ db' = ReadLines(file)
                           /\ IF bind_ok
                              THEN /\ pc' = "loop"
                                   /\ year_now' = clock.year
                                   /\ leap_now' = leap_year(clock.year)
                                   /\ julian_now' = JulianOf(clock)
                              ELSE /\ pc' = "exit1"
                                   /\ NoDate

\* The process is gone and its memory with it; logdata.csv stays.
ProcessGone ==
    /\ pc \notin {"off", "loop"}
    /\ pc' = "off"
    /\ db' = <<>>
    /\ num_days' = 7
    /\ FreshGlobals
    /\ NoDate
    /\ UNCHANGED store

TerminalGoesOn(type) ==
    /\ pc = "loop"
    /\ Message' = [NoMessage EXCEPT !.type = type]
    /\ sent' = <<>>
    /\ ret' = NoReturn
    /\ pc' = "loop"
    /\ UNCHANGED <<store, db, wsjtx_band, wsjtx_mode, year_now, leap_now,
                   julian_now, num_days>>

\* MSG_CLOSE, MSG_TIMEOUT, MSG_SOCKET_ERROR: the loop ends.
Terminal(type) ==
    /\ pc = "loop"
    /\ Message' = [NoMessage EXCEPT !.type = type]
    /\ sent' = <<>>
    /\ ret' = NoReturn
    /\ pc' = "exit"
    /\ UNCHANGED <<store, db, wsjtx_band, wsjtx_mode, year_now, leap_now,
                   julian_now, num_days>>

\* CTRL-C while waiting for a message.
Interrupt ==
    /\ pc = "loop"
    /\ pc' = "exit"
    /\ UNCHANGED <<store, db, wsjtx_band, wsjtx_mode, year_now, leap_now,
                   julian_now, num_days, Message, sent, ret>>

HighlightSwapped(call, level) ==
    IF level = 1
    THEN <<[call |-> call, bg_name |-> "COLOR_RED", fg_name |-> "COLOR_WHITE"]>>
    ELSE IF level = 2
    THEN <<[call |-> call, bg_name |-> "COLOR_ORANGE", fg_name |-> "COLOR_WHITE"]>>
    ELSE <<>>

\* The command send_highlight sends for a level.
HighlightFor(call, level) ==
    IF level = 1
    THEN <<[call |-> call, bg_name |-> "COLOR_ORANGE", fg_name |-> "COLOR_WHITE"]>>
    ELSE IF level = 2
    THEN <<[call |-> call, bg_name |-> "COLOR_RED", fg_name |-> "COLOR_WHITE"]>>
    ELSE <<>>

\* MSG_DECODE
Decode(text) ==
    /\ pc = "loop"
    /\ Message' = [NoMessage EXCEPT !.type = "DECODE", !.text = text]
    /\ LET r == parse_decode(text, db)
       IN  /\ ret' = r
           /\ IF r.error
              THEN /\ pc' = "IndexError"
                   /\ sent' = <<>>
              ELSE /\ pc' = "loop"
                   /\ sent' = HighlightFor(r.call, r.level)
    /\ UNCHANGED <<store, db, wsjtx_band, wsjtx_mode, year_now, leap_now,
                   julian_now, num_days>>

\* MSG_STATUS: parse_status
Status(freq, mode) ==
    /\ pc = "loop"
    /\ Message' = [NoMessage EXCEPT !.type = "STATUS", !.freq = freq,
                                    !.mode = mode]
    /\ wsjtx_band' = Upper(freq2band(freq))
    /\ wsjtx_mode' = Upper(mode)
    /\ sent' = <<>>
    /\ ret' = NoReturn
    /\ UNCHANGED <<store, db, year_now, leap_now, julian_now, num_days, pc>>

HeartbeatClearsContext(clock) ==
    /\ pc = "loop"
    /\ Message' = [NoMessage EXCEPT !.type = "HEARTBEAT"]
    /\ year_now' = clock.year
    /\ leap_now' = leap_year(clock.year)
    /\ julian_now' = JulianOf(clock)
    /\ wsjtx_band' = <<>>
    /\ wsjtx_mode' = <<>>
    /\ sent' = <<>>
    /\ ret' = NoReturn
    /\ UNCHANGED <<store, db, num_days, pc>>

\* MSG_HEARTBEAT: the date is read from the clock again.
Heartbeat(clock) ==
    /\ pc = "loop"
    /\ Message' = [NoMessage EXCEPT !.type = "HEARTBEAT"]
    /\ year_now' = clock.year
    /\ leap_now' = leap_year(clock.year)
    /\ julian_now' = JulianOf(clock)
    /\ sent' = <<>>
    /\ ret' = NoReturn
    /\ UNCHANGED <<store, db, wsjtx_band, wsjtx_mode, num_days, pc>>

\* MSG_QSO_LOGGED: the QSO is added to the list, the list sorted and the
\* file written again; a date parse_date cannot parse ends the program.
QsoLogged(dx_call, qso_date) ==
    /\ pc = "loop"
    /\ Len(db) < MaxIndex
    /\ Message' = [NoMessage EXCEPT !.type = "QSO_LOGGED", !.qso_date = qso_date,
                                    !.dx_call = dx_call]
    /\ sent' = <<>>
    /\ ret' = NoReturn
    /\ LET d == parse_date(qso_date)
       IN  IF d.ok
           THEN LET db_entry == FormatEntry(dx_call, wsjtx_mode, wsjtx_band,
                                            d.year, d.leap, d.julian)
                    sorted == Sort(Append(db, db_entry))
                IN  /\ db' = sorted
                    /\ store' = File(Concat(sorted))
                    /\ pc' = "loop"
           ELSE /\ pc' = "ValueError"
                /\ UNCHANGED <<store, db>>
    /\ UNCHANGED <<wsjtx_band, wsjtx_mode, year_now, leap_now, julian_now,
                   num_days>>

Next ==
    \/ \E opt_n \in OptDays, flag \in {0, 1, 2}, older \in BOOLEAN,
          adif_log \in AdifLogs, bind_ok \in BOOLEAN, clock \in Clock :
          /\ StartReads(opt_n, flag, older, adif_log, bind_ok, clock)
          /\ Start(opt_n, flag, older, adif_log, bind_ok, clock)
    \/ ProcessGone
    \/ \E type \in TerminalTypes : Terminal(type)
    \/ Interrupt
    \/ \E text \in DecodeTexts : Decode(text)
    \/ \E freq \in StatusFreqs, mode \in StatusModes : Status(freq, mode)
    \/ \E clock \in Clock : Heartbeat(clock)
    \/ \E dx_call \in LoggedCalls, qso_date \in LoggedStamps :
          QsoLogged(dx_call, qso_date)

Spec == Init /\ [][Next]_vars

-----------------------------------------------------------------------------
(* The lookup and the classification as functions: a decode message is     *)
(* handled with any index that is sorted by callsign and ends with the     *)
(* sentinel, under any band, mode, date and number of days.                *)

Stamp20221231 == <<"2", "0", "2", "2", "1", "2", "3", "1">>

Stamp20231230 == <<"2", "0", "2", "3", "1", "2", "3", "0">>

Stamp20231231 == <<"2", "0", "2", "3", "1", "2", "3", "1">>

Stamp20241231 == <<"2", "0", "2", "4", "1", "2", "3", "1">>

FnStamps == {Stamp20221231, Stamp20231230, Stamp20231231, Stamp20240101,
             Stamp20240102, Stamp20241231}

FnClock ==
    { [year |-> 2024, month |-> 1, day |-> 1],
      [year |-> 2024, month |-> 1, day |-> 2],
      [year |-> 2024, month |-> 1, day |-> 3],
      [year |-> 2025, month |-> 1, day |-> 1] }

FnCalls == {K1A, K1AB}

\* The (mode, band) pairs of the entries; the session is on the first.
FnModeBands == {<<FT8, <<"2", "0", "M">>>>, <<FT4, <<"2", "0", "M">>>>,
                <<FT8, <<"4", "0", "M">>>>}

FnEntries ==
    { FormatEntry(c, mb[1], mb[2], parse_date(d).year, parse_date(d).leap,
                  parse_date(d).julian) :
        c \in FnCalls, mb \in FnModeBands, d \in FnStamps }

\* Whether the callsigns of the lines ascend.
SortedByCall(list) ==
    \A i \in 1..(Len(list) - 1) : ~StrLess(CallOf(list[i + 1]), CallOf(list[i]))

FnIndexes ==
    { Append(s, SentinelLine) :
        s \in { t \in UNION {[1..n -> FnEntries] : n \in 0..MaxFnRecords} :
                  SortedByCall(t) } }

\* The values of num_days: 2 and more.
FnDays == 2..MaxFnDays

FnTexts ==
    { <<"C", "Q", " ", "K", "1", "A", " ", "F", "N", "2", "0">>,
      <<"C", "Q", " ", "D", "X", " ", "K", "1", "A", "B", " ", "E", "M", "1", "2">>,
      <<"C", "Q", " ", "W", "1", "A", "W", " ", "F", "N", "3", "1">> }

FnInit ==
    /\ store = NoFile
    /\ db \in FnIndexes
    /\ wsjtx_mode = FT8
    /\ wsjtx_band = <<"2", "0", "M">>
    /\ \E clock \in FnClock :
          /\ year_now = clock.year
          /\ leap_now = leap_year(clock.year)
          /\ julian_now = JulianOf(clock)
    /\ num_days \in FnDays
    /\ pc = "loop"
    /\ Message = NoMessage
    /\ sent = <<>>
    /\ ret = NoReturn

\* The decode message is handled once.
FnApply(text) ==
    /\ Message = NoMessage
    /\ Decode(text)

FnNext == \E text \in FnTexts : FnApply(text)

FnSpec == FnInit /\ [][FnNext]_vars

-----------------------------------------------------------------------------
(* What the claims speak of.                                               *)

Fields(line) == Split(Strip(line), ",")

EntryMode(line) == Fields(line)[2]

EntryBand(line) == Fields(line)[3]

EntryYear(line) == ToInt(Fields(line)[4])

EntryLeap(line) == ToInt(Fields(line)[5])

EntryJulian(line) == ToInt(Fields(line)[6])

\* The places (from 1) of the lines of a callsign.
RunOf(call, list) == {i \in 1..Len(list) : CallOf(list[i]) = call}

Matches(line) == EntryMode(line) = wsjtx_mode /\ EntryBand(line) = wsjtx_band

Least(S) == CHOOSE x \in S : \A y \in S : x <= y

Greatest(S) == CHOOSE x \in S : \A y \in S : x >= y

\* A decode message has been handled, and its callsign was found at an index.
Looked == Message.type = "DECODE" /\ ret.index >= 0

\* The Gregorian rule, and the days from 1 January 2000 to a day of a year.
IsLeap(y) == (y % 4 = 0 /\ y % 100 # 0) \/ y % 400 = 0

RECURSIVE DaysToYear(_)
DaysToYear(y) ==
    IF y <= 2000 THEN 0
    ELSE DaysToYear(y - 1) + (IF IsLeap(y - 1) THEN 366 ELSE 365)

DayNumber(year, julian) == DaysToYear(year) + julian

\* The calendar days from the day of an entry to the current day.
Elapsed(line) ==
    DayNumber(year_now, julian_now) - DayNumber(EntryYear(line), EntryJulian(line))

\* The entry is of the current year or of the year before.
Dated(line) == EntryYear(line) \in {year_now, year_now - 1}

\* The delta the specification gives an entry that is Dated.
SpecDelta(line) ==
    IF EntryYear(line) = year_now THEN julian_now - EntryJulian(line)
    ELSE (julian_now + EntryLeap(line) + 365) - EntryJulian(line)

\* The level one entry stands for: 2 for a delta of 0, 1 for a delta of
\* 1 to num_days - 1, else 0.
LevelOfEntry(line) ==
    IF Matches(line) /\ Dated(line)
    THEN IF SpecDelta(line) = 0 THEN 2
         ELSE IF 0 < SpecDelta(line) /\ SpecDelta(line) < num_days THEN 1
         ELSE 0
    ELSE 0

NeverDecreases(levels) ==
    \A k \in 1..(Len(levels) - 1) : levels[k] <= levels[k + 1]

\* C1: for an index sorted by callsign that ends with the sentinel and a
\* callsign found in it, highlight_level returns the greatest of the levels
\* of the entries of that callsign (2 for a matching entry of delta 0, 1 for
\* one of 0 < delta < num_days, else 0), and the level of the scan never
\* decreases from one entry to the next.
C1_MaxOfRun ==
    Looked =>
        /\ ~ret.error
        /\ ret.level = Greatest({LevelOfEntry(db[i]) : i \in RunOf(ret.call, db)})
        /\ NeverDecreases(ret.levels)

\* C2: for a sorted index that ends with the sentinel, call_index returns the
\* least index of an entry of the callsign if there is one, and else -1.
C2_FirstIndex ==
    \A text \in FnTexts :
        LET call == get_callsign(text)
        IN  IF RunOf(call, db) # {}
            THEN call_index(call, db) = Least(RunOf(call, db)) - 1
            ELSE call_index(call, db) = -1

\* C2 happens: the callsign of the handled message has several entries, the
\* binary search met one that is not the first, and the first was returned.
C2_Witness ==
    /\ Looked
    /\ Cardinality(RunOf(ret.call, db)) >= 2
    /\ binary_search(ret.call, db) > ret.index
    /\ ret.index = Least(RunOf(ret.call, db)) - 1

\* C3: a run made only of matching entries whose delta is neither 0 nor
\* between 0 and num_days, a negative delta included, gives level 0.
C3_OnlyUnqualified ==
    ( /\ Looked
      /\ \A i \in RunOf(ret.call, db) :
            /\ Matches(db[i])
            /\ Dated(db[i])
            /\ SpecDelta(db[i]) # 0
            /\ ~(0 < SpecDelta(db[i]) /\ SpecDelta(db[i]) < num_days) )
    => ret.level = 0

\* The list without the lines at the given places.
Without(list, places) ==
    SelectSeq([i \in 1..Len(list) |-> IF i \in places THEN <<>> ELSE list[i]],
              LAMBDA line : line # <<>>)

\* The places of the entries of a callsign whose mode or band is not the
\* current one.
OffContext(call, list) == {i \in RunOf(call, list) : ~Matches(list[i])}

\* C8: the level of a callsign is the same with and without any of its
\* entries whose band or mode is not the current one.
C8_OffContextIgnored ==
    Message.type = "DECODE" =>
        \A places \in SUBSET OffContext(ret.call, db) :
            parse_decode(Message.text, Without(db, places)).level = ret.level

\* C8 happens: the callsign has an entry of another band or mode that would
\* count if it matched, and the message was classified without it.
C8_Witness ==
    /\ Looked
    /\ ret.level = 1
    /\ \E i \in OffContext(ret.call, db) : Dated(db[i]) /\ SpecDelta(db[i]) = 0

\* The only entry of the callsign of the handled message, when it has one
\* entry, which matches and is of this year or the year before.
OnlyEntry == db[Least(RunOf(ret.call, db))]

SingleDated ==
    /\ Looked
    /\ Cardinality(RunOf(ret.call, db)) = 1
    /\ Matches(OnlyEntry)
    /\ Dated(OnlyEntry)

\* C9: a single matching entry num_days days old gives level 0, and one
\* num_days - 1 days old gives level 1, in the same year and across the
\* turn of the year.
C9_Threshold ==
    SingleDated =>
        /\ (Elapsed(OnlyEntry) = num_days => ret.level = 0)
        /\ (Elapsed(OnlyEntry) = num_days - 1 => ret.level = 1)

\* C9 happens: the entry is of the year before and num_days - 1 days old.
C9_Witness ==
    /\ SingleDated
    /\ EntryYear(OnlyEntry) = year_now - 1
    /\ Elapsed(OnlyEntry) = num_days - 1
    /\ ret.level = 1

\* The line that the k-th pass of the scan read.
Scanned(k) == db[ret.index + k]

\* C10: for an entry of the year before, the rollover delta is the number of
\* calendar days elapsed and at least 1, and scanning it never gives level 2;
\* scanning an entry of any other year but the current one leaves the level.
C10_Rollover ==
    /\ \A i \in 1..Len(db) :
          EntryYear(db[i]) = year_now - 1 =>
             /\ RolloverDelta(EntryLeap(db[i]), EntryJulian(db[i])) = Elapsed(db[i])
             /\ RolloverDelta(EntryLeap(db[i]), EntryJulian(db[i])) >= 1
    /\ Looked =>
          \A k \in 1..(Len(ret.levels) - 1) :
             /\ EntryYear(Scanned(k)) = year_now - 1 => ret.levels[k + 1] # 2
             /\ ~Dated(Scanned(k)) => ret.levels[k + 1] = ret.levels[k]

\* C10 happens: a matching entry of a leap year, the year before, was
\* scanned and gave level 1.
C10_Witness ==
    /\ Looked
    /\ \E k \in 1..(Len(ret.levels) - 1) :
          /\ EntryYear(Scanned(k)) = year_now - 1
          /\ EntryLeap(Scanned(k)) = 1
          /\ ret.levels[k] = 0
          /\ ret.levels[k + 1] = 1

-----------------------------------------------------------------------------
(* The session.                                                            *)

\* The lines of logdata.csv.
StoreLines == ReadLines(store.text)

\* The list ends with the sentinel line, which it holds once.
EndsWithSentinel(list) ==
    /\ list # <<>>
    /\ list[Len(list)] = SentinelLine
    /\ Cardinality({i \in 1..Len(list) : list[i] = SentinelLine}) = 1

\* C4: whenever the session loop waits for a message, the list in memory and
\* the file are sorted ascending by callsign.
C4_SortedByCall ==
    pc = "loop" => SortedByCall(db) /\ SortedByCall(StoreLines)

\* C5: after a QSO-logged message has been handled, whatever its callsign,
\* the last line of the list and of the file is the sentinel, which occurs
\* once.
C5_SentinelLast ==
    (pc = "loop" /\ Message.type = "QSO_LOGGED") =>
        EndsWithSentinel(db) /\ EndsWithSentinel(StoreLines)

\* C6: no decode message makes the scan of highlight_level read past the
\* last line of the list.
C6_ScanInBounds == Message.type = "DECODE" => ~ret.error

\* C7: a highlight command is sent only for a decode message that starts
\* with CQ and whose callsign, not empty, is of level 1 or 2; it is then the
\* one command for that callsign, orange for level 1 and red for level 2.
C7_HighlightOnly ==
    LET r == parse_decode(Message.text, db)
        orange == [call |-> r.call, bg_name |-> "COLOR_ORANGE",
                   fg_name |-> "COLOR_WHITE"]
        red == [call |-> r.call, bg_name |-> "COLOR_RED",
                fg_name |-> "COLOR_WHITE"]
    IN  IF /\ Message.type = "DECODE"
           /\ StartsWith(Message.text, CQ)
           /\ r.call # <<>>
           /\ ~r.error
           /\ r.level \in {1, 2}
        THEN sent = <<IF r.level = 1 THEN orange ELSE red>>
        ELSE sent = <<>>

\* C7 happens: a CQ of a callsign logged today was answered with red.
C7_Witness ==
    /\ Message.type = "DECODE"
    /\ ret.level = 2
    /\ Len(sent) = 1
    /\ sent[1].call = K1A
    /\ sent[1].bg_name = "COLOR_RED"

\* C11: when build_database meets a QSO whose date cannot be parsed, the file
\* it leaves is no partial database: if logdata.csv exists after the aborted
\* build, it ends with the sentinel.
C11_NoPartialStore ==
    (pc = "ValueError" /\ Message.type = "NONE") =>
        (store.exists => EndsWithSentinel(StoreLines))

\* The handled decode message found its callsign in entries that all lack
\* the mode or the band.
OnlyEmptyContext ==
    /\ Looked
    /\ \A i \in RunOf(ret.call, db) :
          EntryMode(db[i]) = <<>> \/ EntryBand(db[i]) = <<>>

\* C12: an entry whose mode or band is the empty string never matches, the
\* states before the first status message included: a callsign that has only
\* such entries is of level 0.
C12_EmptyNeverMatches == OnlyEmptyContext => ret.level = 0

-----------------------------------------------------------------------------
(* Building again: logdata.csv was built by an earlier run, and every run  *)
(* is started with option -B, which builds whatever the file holds.        *)

\* The ADIF logs build_database reads to the end.
GoodLogs == {log \in AdifLogs : build_database(log).ok}

\* The orders of a log that move only the QSOs of one callsign among
\* themselves.
Reorderings(log) ==
    { [i \in 1..Len(log) |-> log[q[i]]] :
        q \in { p \in [1..Len(log) -> 1..Len(log)] :
                  /\ \A i, j \in 1..Len(log) : i # j => p[i] # p[j]
                  /\ \A i \in 1..Len(log) :
                        Upper(log[p[i]].CALL) = Upper(log[i].CALL) } }

BuildInit ==
    /\ store \in {File(build_database(log).file) : log \in GoodLogs}
    /\ db = <<>>
    /\ wsjtx_band = <<>>
    /\ wsjtx_mode = <<>>
    /\ year_now = 0
    /\ leap_now = 0
    /\ julian_now = 0
    /\ num_days = 7
    /\ pc = "off"
    /\ Message = NoMessage
    /\ sent = <<>>
    /\ ret = NoReturn

\* A run with option -B.
Rebuild(opt_n, adif_log, bind_ok, clock) ==
    /\ StartReads(opt_n, 2, FALSE, adif_log, bind_ok, clock)
    /\ Start(opt_n, 2, FALSE, adif_log, bind_ok, clock)

BuildNext ==
    \/ \E opt_n \in OptDays, adif_log \in AdifLogs, bind_ok \in BOOLEAN,
          clock \in Clock : Rebuild(opt_n, adif_log, bind_ok, clock)
    \/ ProcessGone
    \/ \E type \in TerminalTypes : Terminal(type)
    \/ Interrupt

BuildSpec == BuildInit /\ [][BuildNext]_vars

\* C13: a run that builds logdata.csv from the log it was built from, in
\* that order or with the QSOs of a callsign in another order, leaves the
\* file as it was, line for line.
C13_SameStore ==
    [][\A log \in GoodLogs :
          (pc = "off" /\ store = File(build_database(log).file)) =>
             \A log2 \in Reorderings(log), opt_n \in OptDays,
                bind_ok \in BOOLEAN, clock \in Clock :
                Rebuild(opt_n, log2, bind_ok, clock) => store' = store]_vars

\* C13 happens: the file was built again from a log of two different QSOs
\* of one callsign.
C13_Witness ==
    /\ pc = "loop"
    /\ Message = NoMessage
    /\ \E log \in GoodLogs :
          /\ Len(log) = 2
          /\ log[1] # log[2]
          /\ log[1].CALL = log[2].CALL
          /\ Reorderings(log) # {log}
          /\ store = File(build_database(log).file)

-----------------------------------------------------------------------------
(* The session, continued.                                                 *)

\* C14: a run whose option -n is below 2 ends with sys.exit(1) before it
\* builds or reads logdata.csv, binds the socket or reads the clock; so
\* num_days is at least 2 whenever the session loop is entered.
C14_ThresholdChecked ==
    [][/\ pc' = "loop" => num_days' >= 2
       /\ (pc = "off" /\ num_days' < 2) =>
             /\ pc' = "exit1"
             /\ store' = store
             /\ db' = <<>>
             /\ year_now' = 0
             /\ julian_now' = 0]_vars

\* C14 happens: a run with -n 1 has ended with exit code 1 and has left the
\* database of an earlier run alone.
C14_Witness ==
    /\ pc = "exit1"
    /\ num_days = 1
    /\ store.exists
    /\ store.text # <<>>
    /\ db = <<>>

\* The message handled last is a QSO-logged message dated the current day.
LoggedToday ==
    /\ pc = "loop"
    /\ Message.type = "QSO_LOGGED"
    /\ LET d == parse_date(Message.qso_date)
       IN  d.ok /\ d.year = year_now /\ d.julian = julian_now

Red(call) == <<[call |-> call, bg_name |-> "COLOR_RED", fg_name |-> "COLOR_WHITE"]>>

\* C15: the decode message that follows a QSO-logged message dated the
\* current day, and is a CQ of the logged callsign, gets level 2 and the red
\* highlight command for that callsign.
C15_LiveUpdateVisible ==
    [][( /\ LoggedToday
         /\ Message'.type = "DECODE"
         /\ StartsWith(Message'.text, CQ)
         /\ get_callsign(Message'.text) = Message.dx_call )
       => ( /\ ~ret'.error
            /\ ret'.level = 2
            /\ sent' = Red(Message.dx_call) )]_vars

\* C15 happens: K1A was logged on FT8 and 20M on 1 January 2024, which only
\* a QSO-logged message does, and a CQ of K1A that day was answered with red.
C15_Witness ==
    /\ Message.type = "DECODE"
    /\ ret.call = K1A
    /\ ret.level = 2
    /\ sent = Red(K1A)
    /\ julian_now = 1
    /\ \E i \in 1..Len(db) :
          db[i] = FormatEntry(K1A, FT8, <<"2", "0", "M">>, 2024, 1, 1)

\* How often a line occurs in a list, and the lines of a list.
Count(list, line) == Cardinality({i \in 1..Len(list) : list[i] = line})

Lines(list) == {list[i] : i \in 1..Len(list)}

\* As a multiset, the list after is the list before and the line once more.
PlusOne(before, after, line) ==
    \A l \in Lines(before) \cup Lines(after) \cup {line} :
        Count(after, l) = Count(before, l) + (IF l = line THEN 1 ELSE 0)

\* Every line of the list before is in the list after, as often at least.
Kept(before, after) ==
    \A l \in Lines(before) : Count(after, l) >= Count(before, l)

\* The step handles a QSO-logged message.
HandlesQsoLogged ==
    /\ pc = "loop"
    /\ pc' \in {"loop", "ValueError"}
    /\ Message'.type = "QSO_LOGGED"

\* The record of the message the step handles, whose date is a date.
NewEntry ==
    LET d == parse_date(Message'.qso_date)
    IN  FormatEntry(Message'.dx_call, wsjtx_mode, wsjtx_band,
                    d.year, d.leap, d.julian)

\* C16 as stated: every QSO-logged message adds exactly one record to the
\* multiset of the records of the list, and no step of the session loop
\* removes or alters a record.
C16_EveryLoggedAddsOne ==
    [][/\ HandlesQsoLogged =>
             \E line \in Lines(db') :
                /\ CallOf(line) = Message'.dx_call
                /\ PlusOne(db, db', line)
       /\ pc = "loop" => Kept(db, db')]_vars

\* C16, amended: a QSO-logged message whose date stamp is a calendar date
\* adds exactly one record (its callsign, the current mode and band, the
\* year, leap flag and julian day of its stamp) to the multiset of the
\* records of the list, one whose stamp is none adds nothing, and no step of
\* the session loop removes or alters a record.
C16_ValidLoggedAddsOne ==
    [][/\ HandlesQsoLogged =>
             IF parse_date(Message'.qso_date).ok
             THEN PlusOne(db, db', NewEntry)
             ELSE db' = db
       /\ pc = "loop" => Kept(db, db')]_vars

\* C16 happens: the same QSO was logged twice, and the list holds its
\* record twice.
C16_Witness ==
    /\ pc = "loop"
    /\ Message.type = "QSO_LOGGED"
    /\ \E i \in 1..Len(db) :
          /\ CallOf(db[i]) = Message.dx_call
          /\ Count(db, db[i]) = 2

\* C17: whenever the session loop waits for a message, and when it has ended
\* on a close, timeout or socket-error message, logdata.csv holds the lines
\* of the list in memory, in the same order.
C17_StoreIsIndex ==
    (pc = "loop" \/ (pc = "exit" /\ Message.type \in TerminalTypes)) =>
        (store.exists /\ StoreLines = db)

\* C17 happens: the session has ended on a terminal message after two QSOs
\* were logged, one of them K1A on FT8 and 20M on 1 January 2024.
C17_Witness ==
    /\ pc = "exit"
    /\ Message.type \in TerminalTypes
    /\ Len(db) = MaxIndex
    /\ StoreLines = db
    /\ \E i \in 1..Len(db) :
          db[i] = FormatEntry(K1A, FT8, <<"2", "0", "M">>, 2024, 1, 1)

\* C18: in the session loop the date changes only when a heartbeat message
\* is handled, the band and the mode only with a status message, the list
\* and logdata.csv only with a QSO-logged message; a decode message leaves
\* the list, the file, the band, the mode, the date and num_days as they
\* were.
C18_Frame ==
    [][pc = "loop" =>
          /\ <<year_now, leap_now, julian_now>>' # <<year_now, leap_now, julian_now>>
                => Message'.type = "HEARTBEAT"
          /\ <<wsjtx_band, wsjtx_mode>>' # <<wsjtx_band, wsjtx_mode>>
                => Message'.type = "STATUS"
          /\ (db' # db \/ store' # store) => Message'.type = "QSO_LOGGED"
          /\ Message'.type = "DECODE" =>
                UNCHANGED <<db, store, wsjtx_band, wsjtx_mode, year_now,
                            leap_now, julian_now, num_days>>]_vars

\* C18 happens: a decode message was handled, and answered, after a status
\* message, a heartbeat and QSO-logged messages had set the band, the date
\* and the list.
C18_Witness ==
    /\ pc = "loop"
    /\ Message.type = "DECODE"
    /\ sent # <<>>
    /\ wsjtx_mode = FT8
    /\ julian_now = 2
    /\ Len(db) = MaxIndex

\* C19: a close, timeout or socket-error message ends the session loop
\* without a highlight command and without a change of the list or of
\* logdata.csv; once the loop has ended no message is handled, no command
\* sent and the file not written: the process only goes away.
C19_TerminalEnds ==
    [][/\ (pc = "loop" /\ Message'.type \in TerminalTypes) =>
             /\ pc' = "exit"
             /\ sent' = <<>>
             /\ db' = db
             /\ store' = store
       /\ pc = "exit" =>
             /\ pc' = "off"
             /\ Message' = NoMessage
             /\ sent' = <<>>
             /\ store' = store]_vars

\* C19 happens: a session that had set its band and logged QSOs has ended
\* on a timeout.
C19_Witness ==
    /\ pc = "exit"
    /\ Message.type = "TIMEOUT"
    /\ wsjtx_mode = FT8
    /\ Len(db) >= 2
    /\ sent = <<>>

\* Whether a stamp YYYYMMDD names a day of the Gregorian calendar.
IsCalendarDate(stamp) ==
    /\ Len(stamp) = 8
    /\ \A i \in 1..8 : IsDigit(stamp[i])
    /\ LET year == ToInt(SubSeq(stamp, 1, 4))
           month == ToInt(SubSeq(stamp, 5, 6))
           day == ToInt(SubSeq(stamp, 7, 8))
           days == IF month = 2 THEN (IF IsLeap(year) THEN 29 ELSE 28)
                   ELSE IF month \in {4, 6, 9, 11} THEN 30 ELSE 31
       IN  year >= 1 /\ month \in 1..12 /\ day \in 1..days

\* C20: a QSO-logged message whose date stamp is no calendar date ends the
\* session with the ValueError of parse_date, and leaves the list in memory
\* and logdata.csv as they were.
C20_BadStampFatal ==
    [][(HandlesQsoLogged /\ ~IsCalendarDate(Message'.qso_date)) =>
          /\ pc' = "ValueError"
          /\ db' = db
          /\ store' = store
          /\ sent' = <<>>]_vars

\* C20 happens: the session has ended on a QSO-logged message dated
\* 29 February 2023, with a QSO logged before it in the list and the file.
C20_Witness ==
    /\ pc = "ValueError"
    /\ Message.type = "QSO_LOGGED"
    /\ ~IsCalendarDate(Message.qso_date)
    /\ Len(db) >= 2
    /\ StoreLines = db

====
